---------------------------- MODULE Spec2Model ----------------------------
(***************************************************************************)
(* hashd-social/relayer: the shared thread-file append handler             *)
(* (POST /api/messages/send), the pending_uploads tracking table and the   *)
(* cleanup job (cleanup.js), with the message contract and the Filebase    *)
(* bucket as their environment.  One thread (key threads/T) is modelled.   *)
(* Beside them: the rate-limited upload endpoint (POST /api/upload) and    *)
(* the per-user message files of IPFSMessageService.                       *)
(***************************************************************************)
EXTENDS Integers, Sequences, FiniteSets, TLC

(* ------------------------------ bounds -------------------------------- *)
\* requests the relayer serves in one behaviour
MaxRequests == 3
\* largest index / count a client may claim
MaxIndex == 2
\* distinct non-zero hash values clients may put in hash / prevHash
MaxHash == 2
\* number of clock steps
MaxTicks == 2
\* requests served in one behaviour when the cleanup job runs beside them
MaxTrackedRequests == 2
\* process.env.MAX_UPLOADS_PER_HOUR (10 when unset, part_000 line 115)
maxUploads == 2
\* number of steps of the upload endpoint's clock, each a third of an hour
MaxUploadTicks == 4
\* largest messageId (Date.now() of POST /send) a message may carry
MaxMessageId == 2
\* messages a user file may hold
MaxMessages == 3

(* --------------------------- program constants ------------------------ *)
\* '0x000...0', the prevHash of a first message
zeroHash == 0
\* runCleanup's default maxAgeMinutes
maxAgeMinutes == 15
\* SQL NULL in the confirmed_at column
NULL == -1
\* the rate limiter's window, in milliseconds
oneHour == 3600000
\* the largest distance between a request's timestamp and Date.now()
fiveMinutes == 300000

Reqs == {"r1", "r2"}
Sweeps == {"s1", "s2"}
\* each slot is one participant's client
SenderOf == [p \in Reqs |-> IF p = "r1" THEN "A" ELSE "B"]
Hashes == 1..MaxHash
threadId == "T"
threadKey == "threads/T"

\* the request bodies a client may send: index, prevHash and hash are the
\* caller's claims, the handler never recomputes a digest
SignedMessages(p) ==
  [sender : {SenderOf[p]}, index : 0..MaxIndex,
   prevHash : {zeroHash} \cup Hashes, hash : Hashes]

VARIABLES
  chain,            \* the message contract: the commits it recorded for T, in order
  bucket,           \* the object at key threads/T: <<>> or <<threadFile>>
  req,              \* the send handler's pending calls, one per slot
  nreq,             \* requests started so far
  ipfsBucket,       \* whether the bucket's object metadata carries a cid
  pending_uploads,  \* the SQLite table, cid |-> row
  now,              \* Date.now(), in minutes
  sweep,            \* the runCleanup calls in progress, one per timer
  rateLimitStore,   \* the Map of part_000 line 110: address |-> accepted times
  passed,           \* per address, every time checkRateLimit allowed a request
  dateNow,          \* Date.now() of the upload endpoint, in milliseconds
  filebase,         \* the objects POST /api/upload wrote: key |-> body
  upload,           \* the last POST /api/upload request and its response
  newThread,        \* per slot, the participants of the thread file last begun
  userFile,         \* the object at messages/0xa: <<>> or <<UserMessageFile>>
  call              \* the IPFSMessageService calls in progress, one per slot

\* passed is not a variable of the program: it keeps the times the Map
\* forgets, for the properties below
uploadVars == <<rateLimitStore, passed, dateNow, filebase, upload>>
serviceVars == <<userFile, call>>
apiVars == <<uploadVars, newThread, serviceVars>>

vars == <<chain, bucket, req, nreq, ipfsBucket, pending_uploads, now, sweep,
          rateLimitStore, passed, dateNow, filebase, upload, newThread,
          userFile, call>>

\* the state of the send handler, the contract and the cleanup job
relayVars == <<chain, bucket, req, nreq, ipfsBucket, pending_uploads, now, sweep>>

(* ------------------------- POST /api/upload --------------------------- *)
\* addresses as clients write them: lower case or with capitals
Identities == {"0xa", "0xA", "0xb", "0xB"}
\* String.prototype.toLowerCase on an address
toLowerCase(x) ==
  CASE x = "0xA" -> "0xa"
    [] x = "0xB" -> "0xb"
    [] x = "0xC" -> "0xc"
    [] OTHER -> x
\* the keys of rateLimitStore: line 325 lower-cases the address
Accounts == {toLowerCase(x) : x \in Identities}
\* what UserProfile.isMember and GroupFactory.getGroupByToken(..).owner
\* answer on chain: 0xa is a member and owns no group, 0xb owns the group
\* and is no member
Members == {"0xa"}
GroupOwner == "0xB"
Files == {"f1", "f2"}
ContentHashes == {"h1", "h2"}
\* ethers.keccak256 of a file buffer
keccak256(file) == IF file = "f1" THEN "h1" ELSE "h2"
\* how Filebase may answer s3.upload and s3.headObject, and the chain the
\* membership or ownership query
UploadIO == {"ok", "rpcFails", "uploadFails", "headFails"}

\* the multipart bodies a client may post: age is Date.now() minus the
\* timestamp field, signer and signedHash say whose key made the signature
\* and over which Hash line
UploadRequests ==
  [userAddress : {"0xa", "0xB"}, signer : {"0xA", "0xB"},
   signedHash : ContentHashes, file : Files, contentHash : ContentHashes,
   age : {0, 0 - fiveMinutes - 1}, folder : {"posts", "tokens/1"}]

\* posts of file f1, signed over its hash, from either spelling of 0xa and
\* from 0xb
PostRequests ==
  [userAddress : {"0xa", "0xA", "0xb"}, signer : {"0xA", "0xB"},
   signedHash : {"h1"}, file : {"f1"}, contentHash : {"h1"},
   age : {fiveMinutes, fiveMinutes + 1}, folder : {"posts"}]

IdleUpload ==
  [userAddress |-> "0xa", signer |-> "0xA", signedHash |-> "h1",
   file |-> "f1", contentHash |-> "h1", timestamp |-> 0, folder |-> "posts",
   pc |-> "idle", status |-> 0, error |-> ""]

Abs(x) == IF x < 0 THEN 0 - x ELSE x

\* lines 116-138 with > for >= at line 127
checkRateLimitOffByOne(store, userAddress, t) ==
  LET hourAgo == t - oneHour
      userUploads == SelectSeq(store[userAddress], LAMBDA x : x > hourAgo)
  IN IF Len(userUploads) > maxUploads
       THEN [allowed |-> FALSE, store |-> store]
       ELSE [allowed |-> TRUE,
             store |-> [store EXCEPT ![userAddress] = Append(userUploads, t)]]

\* lines 116-138: the times of the last hour are counted; at the limit the
\* request is refused and the Map keeps its list, else now is appended to
\* the filtered list and the list stored
checkRateLimit(store, userAddress, t) ==
  LET hourAgo == t - oneHour
      userUploads == SelectSeq(store[userAddress], LAMBDA x : x > hourAgo)
  IN IF Len(userUploads) >= maxUploads
       THEN [allowed |-> FALSE, store |-> store]
       ELSE [allowed |-> TRUE,
             store |-> [store EXCEPT ![userAddress] = Append(userUploads, t)]]

\* line 349: the text the client must have signed (the group address and
\* the nonce are the same in every request modelled)
UploadMessage(contentHash, timestamp) ==
  [contentHash |-> contentHash, timestamp |-> timestamp]

\* ethers.verifyMessage: the signer's address in checksum form when the
\* signature was made over this text, else the address of an unrelated key
verifyMessage(message, signature) ==
  IF signature.message = message THEN signature.signer ELSE "0x0"

\* lines 141-149 with the comparison of line 144 dropped
verifySignatureAnySigner(message, signature, expectedAddress) ==
  verifyMessage(message, signature) # "0x0"

\* lines 141-149
verifySignature(message, signature, expectedAddress) ==
  toLowerCase(verifyMessage(message, signature)) = toLowerCase(expectedAddress)

\* lines 152-175: isMember's answer, false when a call to the chain throws
verifyMembership(userAddress, rpcOk) ==
  rpcOk /\ toLowerCase(userAddress) \in Members

\* lines 178-212: false when the call to the chain throws
verifyTokenOwnership(userAddress, rpcOk) ==
  rpcOk /\ toLowerCase(GroupOwner) = toLowerCase(userAddress)

\* lines 215-228: s3.upload under the key folder/contentHash (no filename
\* is sent), replacing what the key held
uploadToFilebase(store, encryptedData, contentHash, folder) ==
  LET key == <<folder, contentHash>>
  IN {o \in store : o.key # key} \cup {[key |-> key, body |-> encryptedData]}

\* the status code sent with each error text
StatusOf(error) ==
  CASE error = "" -> 200
    [] error = "Rate limit exceeded" -> 429
    [] error \in {"Timestamp expired", "Content hash mismatch"} -> 400
    [] error = "Invalid signature" -> 401
    [] error \in {"Not authorized", "Not a group member"} -> 403
    [] OTHER -> 500

\* lines 278-367, for a body that passes the format checks of lines
\* 293-322: the rate limiter, then the timestamp, the hash and the
\* signature, with no wait between them.  A body that passes them waits
\* for the chain.  One request is served at a time
UploadReceive(r) ==
  LET userAddress == r.userAddress
      timestamp == dateNow - r.age
      rateLimitResult ==
        checkRateLimit(rateLimitStore, toLowerCase(userAddress), dateNow)
      message == UploadMessage(r.contentHash, timestamp)
      signature == [signer |-> r.signer,
                    message |-> UploadMessage(r.signedHash, timestamp)]
      error ==
        IF ~rateLimitResult.allowed THEN "Rate limit exceeded"
        ELSE IF Abs(dateNow - timestamp) > fiveMinutes THEN "Timestamp expired"
        ELSE IF keccak256(r.file) # r.contentHash THEN "Content hash mismatch"
        ELSE IF ~verifySignature(message, signature, userAddress)
          THEN "Invalid signature"
        ELSE ""
  IN /\ upload.pc # "authorizing"
     /\ rateLimitStore' = rateLimitResult.store
     /\ passed' = IF rateLimitResult.allowed
                    THEN [passed EXCEPT ![toLowerCase(userAddress)] =
                                           Append(@, dateNow)]
                    ELSE passed
     /\ upload' = [userAddress |-> userAddress, signer |-> r.signer,
                   signedHash |-> r.signedHash, file |-> r.file,
                   contentHash |-> r.contentHash, timestamp |-> timestamp,
                   folder |-> r.folder,
                   pc |-> IF error = "" THEN "authorizing" ELSE "responded",
                   status |-> IF error = "" THEN 0 ELSE StatusOf(error),
                   error |-> error]
     /\ UNCHANGED <<relayVars, newThread, serviceVars, dateNow, filebase>>

\* lines 369-419: the ownership query for a folder under tokens/, else the
\* membership query, then uploadToFilebase and the response.  s3.upload may
\* throw (uploadFails), or headObject after the object was written
\* (headFails); either is answered 500
UploadStore(io) ==
  LET tokens == upload.folder = "tokens/1"
      error ==
        IF tokens /\ ~verifyTokenOwnership(upload.userAddress, io # "rpcFails")
          THEN "Not authorized"
        ELSE IF ~tokens /\ ~verifyMembership(upload.userAddress, io # "rpcFails")
          THEN "Not a group member"
        ELSE IF io \in {"uploadFails", "headFails"} THEN "Upload failed"
        ELSE ""
      written == error = "" \/ (error = "Upload failed" /\ io = "headFails")
  IN /\ upload.pc = "authorizing"
     /\ filebase' = IF written
                      THEN uploadToFilebase(filebase, upload.file,
                                            upload.contentHash, upload.folder)
                      ELSE filebase
     /\ upload' = [upload EXCEPT !.pc = "responded",
                                 !.status = StatusOf(error),
                                 !.error = error]
     /\ UNCHANGED <<relayVars, newThread, serviceVars, dateNow, rateLimitStore, passed>>

\* time passes at the upload endpoint
UploadTick ==
  /\ dateNow < MaxUploadTicks * (oneHour \div 3)
  /\ dateNow' = dateNow + (oneHour \div 3)
  /\ UNCHANGED <<relayVars, newThread, serviceVars, rateLimitStore, passed, filebase, upload>>

(* --------------------- a new thread's participants -------------------- *)
\* the participants arrays a client may sign: two or three different
\* addresses, each in lower case or with capitals, in any order
Parties == Identities \cup {"0xc", "0xC"}
ParticipantLists ==
  {ps \in UNION {[1..n -> Parties] : n \in 2..3} :
     \A i, j \in DOMAIN ps : i # j => toLowerCase(ps[i]) # toLowerCase(ps[j])}

\* a.toLowerCase().localeCompare(b.toLowerCase()) < 0 for two addresses
LowerBefore(a, b) ==
  LET rank(x) == CASE toLowerCase(x) = "0xa" -> 1
                   [] toLowerCase(x) = "0xb" -> 2
                   [] OTHER -> 3
  IN rank(a) < rank(b)

\* Array.prototype.sort with that comparator: a stable sort, the elements
\* themselves are not changed
RECURSIVE sortParticipants(_)
sortParticipants(ps) ==
  IF ps = <<>>
    THEN <<>>
    ELSE LET rest == sortParticipants(Tail(ps))
             before == SelectSeq(rest, LAMBDA x : LowerBefore(x, Head(ps)))
             after == SelectSeq(rest, LAMBDA x : ~LowerBefore(x, Head(ps)))
         IN before \o <<Head(ps)>> \o after

\* a slot that has begun no thread file
NoThread == [started |-> FALSE, given |-> <<>>, participants |-> <<>>]

\* lines 647-668: the send handler begins a new thread file (the contract
\* counts no message, or the stored file is missing) for a request whose
\* signedMessage.participants is ps; the file's participants field is
\* the sorted array
StartThreadFile(p, ps) ==
  /\ newThread' = [newThread EXCEPT
                     ![p] = [started |-> TRUE, given |-> ps,
                             participants |-> sortParticipants(ps)]]
  /\ UNCHANGED <<relayVars, uploadVars, serviceVars>>

(* ------------------------ IPFSMessageService -------------------------- *)
\* the user whose file messages/0xa is modelled, and the users it writes to
owner == "0xa"
Users == {"0xa", "0xb", "0xc"}
Calls == {"c1", "c2"}

\* the messages POST /send may pass for this file: the owner sends or
\* receives
ServiceMessages ==
  {m \in [messageId : 1..MaxMessageId, sender : Users, recipient : Users] :
     m.sender # m.recipient /\ owner \in {m.sender, m.recipient}}

\* lines 60-68: the digest of the lower-cased, sorted participants, equal
\* for two arrays exactly when they name the same addresses
generateThreadId(participants) ==
  {toLowerCase(participants[i]) : i \in DOMAIN participants}

\* lines 74-84: the file initializeUser writes
initialFile ==
  [version |-> 1, threads |-> <<>>, threadIndex |-> <<>>,
   messageIndex |-> <<>>]

\* lines 129-177: the thread is looked up or appended, the message pushed
\* with isRead set for the owner's own messages, the counts, the index and
\* the version updated.  Indices are the program's, counted from 0
addMessage(file, userAddress, message) ==
  LET participants == <<message.sender, message.recipient>>
      id == generateThreadId(participants)
      isNew == id \notin DOMAIN file.threadIndex
      threadIdx == IF isNew THEN Len(file.threads) ELSE file.threadIndex[id]
      threads == IF isNew
                   THEN Append(file.threads,
                               [threadId |-> id, participants |-> participants,
                                messageCount |-> 0, unreadCount |-> 0,
                                messages |-> <<>>])
                   ELSE file.threads
      thread == threads[threadIdx + 1]
      messageIdx == Len(thread.messages)
      pushed == [thread EXCEPT
                   !.messages = Append(@, [messageId |-> message.messageId,
                                           sender |-> message.sender,
                                           isRead |-> message.sender = userAddress]),
                   !.messageCount = @ + 1,
                   !.unreadCount = IF message.sender # userAddress
                                     THEN @ + 1 ELSE @]
  IN [version |-> file.version + 1,
      threads |-> [threads EXCEPT ![threadIdx + 1] = pushed],
      threadIndex |-> (id :> threadIdx) @@ file.threadIndex,
      messageIndex |-> (message.messageId :> <<threadIdx, messageIdx>>)
                         @@ file.messageIndex]

\* lines 233-243 with the test of line 238 forgotten
markReadAlways(file, messageId) ==
  LET threadIdx == file.messageIndex[messageId][1]
      messageIdx == file.messageIndex[messageId][2]
      thread == file.threads[threadIdx + 1]
      unread == IF thread.unreadCount > 0 THEN thread.unreadCount - 1 ELSE 0
  IN [file EXCEPT
        !.threads[threadIdx + 1].messages[messageIdx + 1].isRead = TRUE,
        !.threads[threadIdx + 1].unreadCount = unread,
        !.version = @ + 1]

\* lines 233-243: an unread message is set read, unreadCount goes down (not
\* below 0) and the version up; a read message changes nothing
markRead(file, messageId) ==
  LET threadIdx == file.messageIndex[messageId][1]
      messageIdx == file.messageIndex[messageId][2]
      thread == file.threads[threadIdx + 1]
      message == thread.messages[messageIdx + 1]
      unread == IF thread.unreadCount > 0 THEN thread.unreadCount - 1 ELSE 0
  IN IF ~message.isRead
       THEN [file EXCEPT
               !.threads[threadIdx + 1].messages[messageIdx + 1].isRead = TRUE,
               !.threads[threadIdx + 1].unreadCount = unread,
               !.version = @ + 1]
       ELSE file

\* the messages a file holds, over all its threads
RECURSIVE MessageCount(_)
MessageCount(threads) ==
  IF threads = <<>>
    THEN 0
    ELSE Len(Head(threads).messages) + MessageCount(Tail(threads))

\* a slot with no call.  version is the version of the file the call read
IdleCall ==
  [pc |-> "idle", op |-> "none", messageId |-> 0, sender |-> owner,
   version |-> 0, file |-> initialFile]

\* lines 70-110: initializeUser writes the first file of a user
InitializeUser ==
  /\ userFile = <<>>
  /\ userFile' = <<initialFile>>
  /\ UNCHANGED <<relayVars, uploadVars, newThread, call>>

\* lines 112-177: addMessageToThread reads the stored file (getUserFile
\* throws when there is none) and changes its copy
AddMessageToThread(c, m) ==
  /\ call[c].pc = "idle"
  /\ userFile # <<>>
  /\ MessageCount(userFile[1].threads) < MaxMessages
  /\ call' = [call EXCEPT
                ![c] = [pc |-> "changed", op |-> "add",
                        messageId |-> m.messageId, sender |-> m.sender,
                        version |-> userFile[1].version,
                        file |-> addMessage(userFile[1], owner, m)]]
  /\ UNCHANGED <<relayVars, uploadVars, newThread, userFile>>

\* lines 225-243: markAsRead reads the stored file; destructuring the
\* index entry of an unknown messageId throws and the call ends; else it
\* changes its copy
MarkAsRead(c, messageId) ==
  /\ call[c].pc = "idle"
  /\ userFile # <<>>
  /\ call' = [call EXCEPT
                ![c] = IF messageId \in DOMAIN userFile[1].messageIndex
                         THEN [pc |-> "changed", op |-> "mark",
                               messageId |-> messageId, sender |-> owner,
                               version |-> userFile[1].version,
                               file |-> markRead(userFile[1], messageId)]
                         ELSE [IdleCall EXCEPT !.pc = "rejected",
                                               !.op = "mark",
                                               !.messageId = messageId]]
  /\ UNCHANGED <<relayVars, uploadVars, newThread, userFile>>

\* lines 179-183 and 245-249: the first ipfs.add of the call's copy under
\* messages/0xa
FirstAdd(c) ==
  /\ call[c].pc = "changed"
  /\ userFile' = <<call[c].file>>
  /\ call' = [call EXCEPT ![c].pc = "added"]
  /\ UNCHANGED <<relayVars, uploadVars, newThread>>

\* lines 185-196 and 251-261: the second ipfs.add, of the copy with its
\* currentCID set, and the call returns
FinalAdd(c) ==
  /\ call[c].pc = "added"
  /\ userFile' = <<call[c].file>>
  /\ call' = [call EXCEPT ![c].pc = "done"]
  /\ UNCHANGED <<relayVars, uploadVars, newThread>>

\* the route has answered; the slot takes the next call
Return(c) ==
  /\ call[c].pc \in {"done", "rejected"}
  /\ call' = [call EXCEPT ![c] = IdleCall]
  /\ UNCHANGED <<relayVars, uploadVars, newThread, userFile>>

(* ------------------------- the thread file ---------------------------- *)
\* lines 650-656 and 661-667: a new, empty thread file
NewThreadFile == [messages |-> <<>>, version |-> 0, lastUpdated |-> now]

\* lines 643-646 with the truncation forgotten
TruncateNot(file, contractMessageCount) == file

\* lines 643-646: drop what the contract has not confirmed
Truncate(file, contractMessageCount) ==
  IF Len(file.messages) > contractMessageCount
    THEN [file EXCEPT !.messages = SubSeq(file.messages, 1, contractMessageCount)]
    ELSE file

\* lines 631-668 with the stored file read whatever the count, and kept
\* whole when the count is 0
LoadThreadFileAlways(contractMessageCount, readOk) ==
  IF readOk /\ bucket # <<>>
    THEN IF contractMessageCount > 0
           THEN Truncate(bucket[1], contractMessageCount)
           ELSE bucket[1]
    ELSE NewThreadFile

\* lines 631-668: the thread file the handler works on; readOk is the outcome
\* of s3.getObject (a missing key fails it as well)
LoadThreadFile(contractMessageCount, readOk) ==
  IF contractMessageCount > 0
    THEN IF readOk /\ bucket # <<>>
           THEN Truncate(bucket[1], contractMessageCount)
           ELSE NewThreadFile
    ELSE NewThreadFile

\* the contract is configured (MESSAGE_CONTRACT_ADDRESS is set)
messageContract == TRUE

\* line 671 counting from 1
expectedIndexOffByOne(file, contractMessageCount) == Len(file.messages) + 1

\* line 671
expectedIndex(file, contractMessageCount) ==
  IF messageContract THEN contractMessageCount ELSE Len(file.messages)

\* lines 676-694 with the comparison of line 684 forgotten
PrevHashOkNoLink(file, signedMessage, contractMessageCount) ==
  IF contractMessageCount > 0
    THEN Len(file.messages) >= contractMessageCount
    ELSE signedMessage.prevHash = zeroHash

\* lines 676-694 with the check of a first message (lines 688-694) forgotten
PrevHashOkNoZero(file, signedMessage, contractMessageCount) ==
  IF contractMessageCount > 0
    THEN /\ Len(file.messages) >= contractMessageCount
         /\ signedMessage.prevHash = file.messages[contractMessageCount].hash
    ELSE TRUE

\* lines 676-694: the chain link; file.messages[c-1] is undefined (line 681)
\* when the file is shorter than the confirmed count
PrevHashOk(file, signedMessage, contractMessageCount) ==
  IF contractMessageCount > 0
    THEN /\ Len(file.messages) >= contractMessageCount
         /\ signedMessage.prevHash = file.messages[contractMessageCount].hash
    ELSE signedMessage.prevHash = zeroHash

\* lines 670-674 with the test forgotten
IndexOkAny(file, signedMessage, contractMessageCount) == TRUE

\* lines 670-674
IndexOk(file, signedMessage, contractMessageCount) ==
  signedMessage.index = expectedIndex(file, contractMessageCount)

\* lines 696-699 with threadFile.version++ forgotten
PushMessageNoVersion(file, signedMessage) ==
  [messages |-> Append(file.messages, signedMessage),
   version |-> file.version,
   lastUpdated |-> now]

\* lines 696-699
PushMessage(file, signedMessage) ==
  [messages |-> Append(file.messages, signedMessage),
   version |-> file.version + 1,
   lastUpdated |-> now]

(* ------------------------- content identifiers ------------------------ *)
\* line 587: headResult.Metadata.cid, the identifier of the object's content,
\* or the key when the metadata carries none
ContentCid(file) == [key |-> "", body |-> <<file>>]
PathCid == [key |-> threadKey, body |-> <<>>]

\* lines 580-587: what uploadJSONToIPFS returns as cid after its headObject
HeadCid == IF ipfsBucket THEN ContentCid(bucket[1]) ELSE PathCid

(* ------------------------- the tracking table ------------------------- *)
\* lines 37-40 as INSERT OR IGNORE: a row already there is kept
insertUploadIgnore(t, cid, thread, messageIndex, sender) ==
  IF cid \in DOMAIN t
    THEN t
    ELSE [c \in DOMAIN t \cup {cid} |->
            IF c = cid
              THEN [thread_id |-> thread, message_index |-> messageIndex,
                    sender |-> sender, created_at |-> now,
                    confirmed_at |-> NULL, status |-> "pending"]
              ELSE t[c]]

\* lines 37-40: INSERT OR REPLACE, status 'pending', confirmed_at NULL
insertUpload(t, cid, thread, messageIndex, sender) ==
  [c \in DOMAIN t \cup {cid} |->
     IF c = cid
       THEN [thread_id |-> thread, message_index |-> messageIndex,
             sender |-> sender, created_at |-> now,
             confirmed_at |-> NULL, status |-> "pending"]
       ELSE t[c]]

\* lines 48-52 setting created_at for confirmed_at
markConfirmedCreatedAt(t, cid) ==
  IF cid \in DOMAIN t
    THEN [t EXCEPT ![cid].status = "confirmed", ![cid].created_at = now]
    ELSE t

\* lines 48-52: UPDATE ... WHERE cid = ?, no row: no change
markConfirmed(t, cid) ==
  IF cid \in DOMAIN t
    THEN [t EXCEPT ![cid].status = "confirmed", ![cid].confirmed_at = now]
    ELSE t

\* lines 54-58
markOrphaned(t, cid) ==
  IF cid \in DOMAIN t THEN [t EXCEPT ![cid].status = "orphaned"] ELSE t

\* lines 60-64 with a WHERE clause that matches no row
markUnpinnedNoRow(t, cid) == t

\* lines 60-64
markUnpinned(t, cid) ==
  IF cid \in DOMAIN t THEN [t EXCEPT ![cid].status = "unpinned"] ELSE t

\* lines 82-91: the INSERT runs, or it throws (insertOk = FALSE), which
\* trackUpload catches: it logs and returns false, the table is as before
trackUpload(t, cid, thread, messageIndex, sender, insertOk) ==
  IF insertOk THEN insertUpload(t, cid, thread, messageIndex, sender) ELSE t

\* lines 110-113 with the cutoff taken in seconds: maxAgeMinutes * 60
getStaleUploadsLate(t, maxAge) ==
  {[cid |-> c, thread_id |-> t[c].thread_id,
    message_index |-> t[c].message_index, sender |-> t[c].sender] :
     c \in {d \in DOMAIN t : /\ t[d].status = "pending"
                              /\ t[d].created_at < now - maxAge * 60}}

\* lines 42-46 with <= for < at line 45
getStaleUploadsInclusive(t, maxAge) ==
  {[cid |-> c, thread_id |-> t[c].thread_id,
    message_index |-> t[c].message_index, sender |-> t[c].sender] :
     c \in {d \in DOMAIN t : /\ t[d].status = "pending"
                              /\ t[d].created_at <= now - maxAge}}

\* lines 42-46 and 110-113: the pending rows created before the cutoff, as
\* the upload objects the loop reads (cid, thread_id, message_index, sender)
getStaleUploads(t, maxAge) ==
  {[cid |-> c, thread_id |-> t[c].thread_id,
    message_index |-> t[c].message_index, sender |-> t[c].sender] :
     c \in {d \in DOMAIN t : /\ t[d].status = "pending"
                              /\ t[d].created_at < now - maxAge}}

\* lines 66-69 with the WHERE clause forgotten
getAllUploads(t) == DOMAIN t

\* lines 66-69
getOrphanedUploads(t) == {c \in DOMAIN t : t[c].status = "orphaned"}

\* lines 118-132 with >= for > at line 127
checkOnChainAtLeast(queryOk, expected) ==
  messageContract /\ queryOk /\ Len(chain) >= expected

\* lines 118-132: getReadStatus answers (queryOk) or throws, which reads as
\* not confirmed
checkOnChain(queryOk, expected) ==
  messageContract /\ queryOk /\ Len(chain) > expected

\* lines 137-151: unpinFromFilebase touches neither the bucket nor the
\* table, it logs and returns true
unpinFromFilebase(cid) == TRUE

\* lines 200-214 with the dryRun test of line 205 forgotten
UnpinOutcomesAlways(t, dryRun, unpinOk) ==
  IF unpinOk
    THEN {getOrphanedUploads(t)}
    ELSE SUBSET getOrphanedUploads(t) \ {getOrphanedUploads(t)}

\* lines 200-214: the rows the unpin loop marks.  With dryRun none; else
\* every orphaned row (unpinFromFilebase returned true), unless
\* markUnpinned.run throws (unpinOk = FALSE), which nothing in the loop
\* catches: the rows before the throw are marked, in the order the SELECT
\* returned them
UnpinOutcomes(t, dryRun, unpinOk) ==
  LET orphanedUploads == {c \in getOrphanedUploads(t) : unpinFromFilebase(c)}
  IN IF dryRun
       THEN {{}}
       ELSE IF unpinOk
              THEN {orphanedUploads}
              ELSE SUBSET orphanedUploads \ {orphanedUploads}

\* lines 208-212 for the rows in done
UnpinOrphaned(t, done) ==
  [c \in DOMAIN t |-> IF c \in done THEN markUnpinned(t, c)[c] ELSE t[c]]

\* lines 200-226: the unpin loop has run over done; runCleanup returns its
\* counts, or it has thrown and the promise rejects (lines 238-240)
Finished(sw, t, done) ==
  [sw EXCEPT !.pc = IF sw.dryRun \/ done = getOrphanedUploads(t)
                      THEN "returned" ELSE "rejected",
             !.staleUploads = {},
             !.orphanedAtStart = {},
             !.unpinned = Cardinality(done)]

\* a timer whose runCleanup has not been called yet.  orphanedAtStart is
\* not a variable of the program: while a call is checking it remembers
\* which rows were orphaned when the call began, for the properties below.
\* fetched is staleUploads.length of line 170
IdleSweep ==
  [pc |-> "idle", staleUploads |-> {}, orphanedAtStart |-> {}, dryRun |-> FALSE,
   fetched |-> 0,
   confirmed |-> 0, orphaned |-> 0, unpinned |-> 0, errors |-> 0]

\* lines 176-198 with the errors++ of the catch block (line 196) forgotten
CountResultNoErrors(sw, updateOk, isOnChain) ==
  IF ~updateOk
    THEN sw
    ELSE IF isOnChain
           THEN [sw EXCEPT !.confirmed = @ + 1]
           ELSE [sw EXCEPT !.orphaned = @ + 1]

\* lines 176-198: one stale upload is counted in results, as confirmed
\* (line 183) or orphaned (line 187), or as an error when the UPDATE threw
\* (line 196)
CountResult(sw, updateOk, isOnChain) ==
  IF ~updateOk
    THEN [sw EXCEPT !.errors = @ + 1]
    ELSE IF isOnChain
           THEN [sw EXCEPT !.confirmed = @ + 1]
           ELSE [sw EXCEPT !.orphaned = @ + 1]

(* --------------------------- send handler ----------------------------- *)
\* storedLength is not a field of the program: it remembers how many
\* messages s3.getObject returned, for the properties below
IdleReq ==
  [pc |-> "idle", signedMessage |-> [sender |-> "A", index |-> 0,
                                      prevHash |-> zeroHash, hash |-> 1],
   contractMessageCount |-> 0, storedLength |-> 0,
   threadFile |-> [messages |-> <<>>, version |-> 0, lastUpdated |-> 0],
   cid |-> PathCid]

Init ==
  /\ chain = <<>>
  /\ bucket = <<>>
  /\ req = [p \in Reqs |-> IdleReq]
  /\ nreq = 0
  /\ ipfsBucket \in BOOLEAN
  /\ pending_uploads = <<>>
  /\ now = 0
  /\ sweep = [s \in Sweeps |-> IdleSweep]
  /\ rateLimitStore = [a \in Accounts |-> <<>>]
  /\ passed = [a \in Accounts |-> <<>>]
  /\ dateNow = 0
  /\ filebase = {}
  /\ upload = IdleUpload
  /\ newThread = [p \in Reqs |-> NoThread]
  /\ userFile = <<>>
  /\ call = [c \in Calls |-> IdleCall]

\* lines 721-724: the handler answers 500 and the call is over
Reset(p) == [req EXCEPT ![p] = IdleReq]

\* lines 594-625: the request arrives and getReadStatus answers (queryOk) or
\* throws, which the handler swallows and reads as count 0
SendQuery(p, queryOk, limit) ==
  /\ req[p].pc = "idle"
  /\ nreq < limit
  /\ nreq' = nreq + 1
  /\ req' = [req EXCEPT ![p].pc = "queried",
                        ![p].contractMessageCount =
                           IF messageContract /\ queryOk THEN Len(chain) ELSE 0]
  /\ UNCHANGED <<chain, bucket, ipfsBucket, pending_uploads, now, sweep, apiVars>>

\* lines 627-699: s3.getObject answers (when asked), truncation, the two
\* checks, the push; a failed check throws and the handler answers 500.
\* m is the request's body: nothing but its sender is read before this point
SendValidate(p, m, readOk) ==
  /\ req[p].pc = "queried"
  /\ LET c == req[p].contractMessageCount
         file == LoadThreadFile(c, readOk)
     IN IF IndexOk(file, m, c) /\ PrevHashOk(file, m, c)
          THEN req' = [req EXCEPT ![p].pc = "uploading",
                                  ![p].signedMessage = m,
                                  ![p].storedLength =
                                     IF c > 0 /\ readOk /\ bucket # <<>>
                                       THEN Len(bucket[1].messages) ELSE 0,
                                  ![p].threadFile = PushMessage(file, m)]
          ELSE req' = Reset(p)
  /\ UNCHANGED <<chain, bucket, nreq, ipfsBucket, pending_uploads, now, sweep, apiVars>>

\* lines 564-578: s3.upload lands in the bucket, or fails and the handler
\* answers 500
SendUpload(p, uploadOk) ==
  /\ req[p].pc = "uploading"
  /\ IF uploadOk
       THEN /\ bucket' = <<req[p].threadFile>>
            /\ req' = [req EXCEPT ![p].pc = "head"]
       ELSE /\ bucket' = bucket
            /\ req' = Reset(p)
  /\ UNCHANGED <<chain, nreq, ipfsBucket, pending_uploads, now, sweep, apiVars>>

\* lines 580-591 and 707-720: s3.headObject answers with the metadata of the
\* object now at the key, trackUpload inserts the row (or fails to, which
\* the handler does not look at: line 708 drops the returned value) and the
\* handler answers success; or headObject fails and the handler answers 500
SendTrack(p, headOk, insertOk) ==
  /\ req[p].pc = "head"
  /\ IF headOk
       THEN LET m == req[p].signedMessage
            IN /\ pending_uploads' =
                    trackUpload(pending_uploads, HeadCid, threadId,
                                m.index, m.sender, insertOk)
               /\ req' = [req EXCEPT ![p].pc = "responded", ![p].cid = HeadCid]
       ELSE /\ pending_uploads' = pending_uploads
            /\ req' = Reset(p)
  /\ UNCHANGED <<chain, bucket, nreq, ipfsBucket, now, sweep, apiVars>>

\* lines 710-712: the sender records the thread CID on-chain; the contract
\* takes one commit per index
Commit(p) ==
  /\ req[p].pc = "responded"
  /\ req[p].signedMessage.index = Len(chain)
  /\ chain' = Append(chain, [cid |-> req[p].cid, message |-> req[p].signedMessage])
  /\ req' = Reset(p)
  /\ UNCHANGED <<bucket, nreq, ipfsBucket, pending_uploads, now, sweep, apiVars>>

\* lines 710-712: the sender never records it
Abandon(p) ==
  /\ req[p].pc = "responded"
  /\ req' = Reset(p)
  /\ UNCHANGED <<chain, bucket, nreq, ipfsBucket, pending_uploads, now, sweep, apiVars>>

(* ----------------------------- cleanup job ---------------------------- *)
\* Date.now() moves on by one grace window
Tick ==
  /\ now < MaxTicks * maxAgeMinutes
  /\ now' = now + maxAgeMinutes
  /\ UNCHANGED <<chain, bucket, req, nreq, ipfsBucket, pending_uploads, sweep, apiVars>>

\* lines 159-175: a timer of startCleanupCron (lines 237-248) calls
\* runCleanup, whether or not an earlier call is still waiting; it reads the
\* stale rows and, with none to check, runs lines 200-226 at once
CleanupStart(s, dryRun, unpinOk) ==
  /\ sweep[s].pc # "checking"
  /\ LET stale == getStaleUploads(pending_uploads, maxAgeMinutes)
         started == [IdleSweep EXCEPT !.pc = "checking",
                                      !.staleUploads = stale,
                                      !.orphanedAtStart =
                                         getOrphanedUploads(pending_uploads),
                                      !.dryRun = dryRun,
                                      !.fetched = Cardinality(stale)]
     IN IF stale = {}
          THEN \E done \in UnpinOutcomes(pending_uploads, dryRun, unpinOk) :
                 /\ pending_uploads' = UnpinOrphaned(pending_uploads, done)
                 /\ sweep' = [sweep EXCEPT
                                ![s] = Finished(started, pending_uploads, done)]
          ELSE /\ pending_uploads' = pending_uploads
               /\ sweep' = [sweep EXCEPT ![s] = started]
  /\ UNCHANGED <<chain, bucket, req, nreq, ipfsBucket, now, apiVars>>

\* lines 176-198: checkOnChain answers for one stale upload and its row is
\* marked, or the UPDATE throws (updateOk = FALSE), which the loop catches
\* and counts; after the last one lines 200-226 run without another wait
\* for I/O
CleanupCheck(s, queryOk, updateOk, unpinOk) ==
  /\ sweep[s].pc = "checking"
  /\ \E u \in sweep[s].staleUploads :
       LET isOnChain == checkOnChain(queryOk, u.message_index)
           marked == IF ~updateOk
                       THEN pending_uploads
                       ELSE IF isOnChain
                              THEN markConfirmed(pending_uploads, u.cid)
                              ELSE markOrphaned(pending_uploads, u.cid)
           counted == CountResult(sweep[s], updateOk, isOnChain)
           rest == sweep[s].staleUploads \ {u}
       IN IF rest = {}
            THEN \E done \in UnpinOutcomes(marked, sweep[s].dryRun, unpinOk) :
                   /\ pending_uploads' = UnpinOrphaned(marked, done)
                   /\ sweep' = [sweep EXCEPT ![s] = Finished(counted, marked, done)]
            ELSE /\ pending_uploads' = marked
                 /\ sweep' = [sweep EXCEPT ![s] = [counted EXCEPT !.staleUploads = rest]]
  /\ UNCHANGED <<chain, bucket, req, nreq, ipfsBucket, now, apiVars>>

(* --------------------------- specifications --------------------------- *)
\* the send handler and the contract, every call to the contract or the
\* bucket may fail
NextEngine ==
  \E p \in Reqs :
    \/ \E queryOk \in BOOLEAN : SendQuery(p, queryOk, MaxRequests)
    \/ \E m \in SignedMessages(p), readOk \in BOOLEAN : SendValidate(p, m, readOk)
    \/ \E uploadOk \in BOOLEAN : SendUpload(p, uploadOk)
    \/ \E headOk \in BOOLEAN : SendTrack(p, headOk, TRUE)
    \/ Commit(p)
    \/ Abandon(p)

SpecEngine == Init /\ [][NextEngine]_vars

\* the same, and the INSERT of trackUpload may fail as well
NextEngineDb ==
  \E p \in Reqs :
    \/ \E queryOk \in BOOLEAN : SendQuery(p, queryOk, MaxRequests)
    \/ \E m \in SignedMessages(p), readOk \in BOOLEAN : SendValidate(p, m, readOk)
    \/ \E uploadOk \in BOOLEAN : SendUpload(p, uploadOk)
    \/ \E headOk \in BOOLEAN, insertOk \in BOOLEAN : SendTrack(p, headOk, insertOk)
    \/ Commit(p)
    \/ Abandon(p)

SpecEngineDb == Init /\ [][NextEngineDb]_vars

\* the same with no I/O failure
NextReliable ==
  \E p \in Reqs :
    \/ SendQuery(p, TRUE, MaxRequests)
    \/ \E m \in SignedMessages(p) : SendValidate(p, m, TRUE)
    \/ SendUpload(p, TRUE)
    \/ SendTrack(p, TRUE, TRUE)
    \/ Commit(p)
    \/ Abandon(p)

SpecReliable == Init /\ [][NextReliable]_vars

\* the server as started: the send handler, the clock and the cleanup timers
Next ==
  \/ \E p \in Reqs :
       \/ \E queryOk \in BOOLEAN : SendQuery(p, queryOk, MaxTrackedRequests)
       \/ \E m \in SignedMessages(p), readOk \in BOOLEAN : SendValidate(p, m, readOk)
       \/ \E uploadOk \in BOOLEAN : SendUpload(p, uploadOk)
       \/ \E headOk \in BOOLEAN, insertOk \in BOOLEAN : SendTrack(p, headOk, insertOk)
       \/ Commit(p)
       \/ Abandon(p)
  \/ Tick
  \/ \E s \in Sweeps, unpinOk \in BOOLEAN : CleanupStart(s, FALSE, unpinOk)
  \/ \E s \in Sweeps, queryOk \in BOOLEAN, updateOk \in BOOLEAN, unpinOk \in BOOLEAN :
       CleanupCheck(s, queryOk, updateOk, unpinOk)

Spec == Init /\ [][Next]_vars

\* the server as started, with no I/O failure
NextNoFailure ==
  \/ \E p \in Reqs :
       \/ SendQuery(p, TRUE, MaxTrackedRequests)
       \/ \E m \in SignedMessages(p) : SendValidate(p, m, TRUE)
       \/ SendUpload(p, TRUE)
       \/ SendTrack(p, TRUE, TRUE)
       \/ Commit(p)
       \/ Abandon(p)
  \/ Tick
  \/ \E s \in Sweeps : CleanupStart(s, FALSE, TRUE)
  \/ \E s \in Sweeps : CleanupCheck(s, TRUE, TRUE, TRUE)

SpecNoFailure == Init /\ [][NextNoFailure]_vars

\* the request bodies with their signature, given by the address it
\* recovers to (ethers.verifyMessage, as in verifySignature of lines
\* 141-149): the signature verifies when signer = sender
SignedRequests(p) ==
  [sender : {SenderOf[p]}, index : 0..MaxIndex,
   prevHash : {zeroHash} \cup Hashes, hash : Hashes, signer : {"A", "B"}]

\* the send handler with no I/O failure, the bodies with their signature
NextSigned ==
  \E p \in Reqs :
    \/ SendQuery(p, TRUE, MaxRequests)
    \/ \E m \in SignedRequests(p) : SendValidate(p, m, TRUE)
    \/ SendUpload(p, TRUE)
    \/ SendTrack(p, TRUE, TRUE)
    \/ Commit(p)
    \/ Abandon(p)

SpecSigned == Init /\ [][NextSigned]_vars

\* runCleanup called with either value of options.dryRun, no I/O failure
NextDryRun ==
  \/ \E p \in Reqs :
       \/ SendQuery(p, TRUE, MaxTrackedRequests)
       \/ \E m \in SignedMessages(p) : SendValidate(p, m, TRUE)
       \/ SendUpload(p, TRUE)
       \/ SendTrack(p, TRUE, TRUE)
       \/ Commit(p)
       \/ Abandon(p)
  \/ Tick
  \/ \E s \in Sweeps, dryRun \in BOOLEAN : CleanupStart(s, dryRun, TRUE)
  \/ \E s \in Sweeps : CleanupCheck(s, TRUE, TRUE, TRUE)

SpecDryRun == Init /\ [][NextDryRun]_vars

\* the server with no I/O failure, its timers firing again and again
\* (setInterval, lines 244-248) and every getReadStatus of the cleanup job
\* answering
SpecSweepFair ==
  /\ Init
  /\ [][NextNoFailure]_vars
  /\ \A s \in Sweeps : /\ WF_vars(CleanupStart(s, FALSE, TRUE))
                        /\ WF_vars(CleanupCheck(s, TRUE, TRUE, TRUE))

\* POST /api/upload alone, every body and every I/O failure, the clock
\* standing still
NextUpload ==
  \/ \E r \in UploadRequests : UploadReceive(r)
  \/ \E io \in UploadIO : UploadStore(io)

SpecUpload == Init /\ [][NextUpload]_vars

\* posts arriving over more than an hour, no I/O failure
NextRateLimit ==
  \/ \E r \in PostRequests : UploadReceive(r)
  \/ UploadStore("ok")
  \/ UploadTick

SpecRateLimit == Init /\ [][NextRateLimit]_vars

\* requests that begin a new thread file, with every participants array
NextParticipants == \E p \in Reqs, ps \in ParticipantLists : StartThreadFile(p, ps)

SpecParticipants == Init /\ [][NextParticipants]_vars

\* the message service called by one client at a time: each call returns
\* before the next begins
NextSequential ==
  \/ InitializeUser
  \/ \E m \in ServiceMessages : AddMessageToThread("c1", m)
  \/ \E id \in 1..MaxMessageId : MarkAsRead("c1", id)
  \/ FirstAdd("c1")
  \/ FinalAdd("c1")
  \/ Return("c1")

SpecSequential == Init /\ [][NextSequential]_vars

\* two POST /send requests for the same user, each calling
\* addMessageToThread once, their reads and writes in any order
NextTwoSends ==
  \/ InitializeUser
  \/ \E c \in Calls :
       \/ \E m \in ServiceMessages : AddMessageToThread(c, m)
       \/ FirstAdd(c)
       \/ FinalAdd(c)

SpecTwoSends == Init /\ [][NextTwoSends]_vars

(* ------------------------------ properties ---------------------------- *)
\* the calls whose message passed both checks
Accepted(p) == req[p].pc \in {"uploading", "head", "responded"}

\* the step in which call p passes both checks
Accepts(p) == req[p].pc = "queried" /\ req'[p].pc = "uploading"

\* C1: an append is accepted only if its index equals the confirmed count
\* the handler obtained (0 when the query threw)
C1_IndexIsConfirmedCount ==
  \A p \in Reqs :
    Accepted(p) => req[p].signedMessage.index = req[p].contractMessageCount

C1_Witness ==
  \E p \in Reqs : /\ req[p].pc = "responded"
                  /\ req[p].contractMessageCount = 1
                  /\ req[p].signedMessage.index = 1

\* C2: with a confirmed count c > 0, an append is accepted only if its
\* prevHash is the hash of the entry the bucket holds at position c-1
C2_PrevHashIsLastConfirmed ==
  [][\A p \in Reqs :
       (Accepts(p) /\ req[p].contractMessageCount > 0) =>
          /\ bucket # <<>>
          /\ Len(bucket[1].messages) >= req[p].contractMessageCount
          /\ req'[p].signedMessage.prevHash =
               bucket[1].messages[req[p].contractMessageCount].hash]_vars

\* an accepted append at c = 1 while the bucket held two entries with
\* different hashes: the link is to the confirmed one, not the last one
C2_Witness ==
  \E p \in Reqs :
    /\ req[p].pc = "uploading"
    /\ req[p].contractMessageCount = 1
    /\ req[p].storedLength = 2
    /\ bucket # <<>>
    /\ Len(bucket[1].messages) = 2
    /\ bucket[1].messages[1].hash # bucket[1].messages[2].hash
    /\ req[p].signedMessage.prevHash = bucket[1].messages[1].hash

\* C3: with a confirmed count of 0, an append is accepted only if its
\* prevHash is the zero hash, whatever the bucket holds
C3_FirstPrevHashIsZero ==
  \A p \in Reqs :
    (Accepted(p) /\ req[p].contractMessageCount = 0) =>
       req[p].signedMessage.prevHash = zeroHash

\* accepted at count 0 while the bucket holds a log
C3_Witness ==
  \E p \in Reqs :
    /\ req[p].pc = "uploading"
    /\ req[p].contractMessageCount = 0
    /\ bucket # <<>>
    /\ req[p].signedMessage.prevHash = zeroHash

\* C4: when the bucket holds more entries than the confirmed count c > 0,
\* an accepted append works on exactly the first c stored entries followed by
\* the new one, and that is what its upload writes
C4_TruncatesToConfirmed ==
  [][\A p \in Reqs :
       /\ (/\ Accepts(p)
           /\ req[p].contractMessageCount > 0
           /\ bucket # <<>>
           /\ Len(bucket[1].messages) > req[p].contractMessageCount) =>
             req'[p].threadFile.messages =
               Append(SubSeq(bucket[1].messages, 1, req[p].contractMessageCount),
                      req'[p].signedMessage)
       /\ (req[p].pc = "uploading" /\ req'[p].pc = "head") =>
             /\ bucket' = <<req[p].threadFile>>
             /\ (req[p].contractMessageCount > 0 =>
                   Len(bucket'[1].messages) = req[p].contractMessageCount + 1)]_vars

\* an upload landed that was built from a longer stored log
C4_Witness ==
  \E p \in Reqs :
    /\ req[p].pc = "head"
    /\ req[p].contractMessageCount > 0
    /\ req[p].storedLength > req[p].contractMessageCount
    /\ bucket = <<req[p].threadFile>>

\* C5 (as claimed): no step changes or removes an entry the bucket holds at
\* a position below the contract's confirmed count
C5_ConfirmedEntriesImmutable ==
  [][\A i \in 1..Len(chain) :
       (bucket # <<>> /\ Len(bucket[1].messages) >= i) =>
          /\ bucket' # <<>>
          /\ Len(bucket'[1].messages) >= i
          /\ bucket'[1].messages[i] = bucket[1].messages[i]]_vars

\* the hash chain of a message list
Chained(messages) ==
  \A i \in 1..Len(messages) :
    messages[i].prevHash = IF i = 1 THEN zeroHash ELSE messages[i - 1].hash

\* C6: the thread file an append wrote to the bucket is hash-chained
C6_StoredLogIsChained == bucket # <<>> => Chained(bucket[1].messages)

\* a stored log of two entries whose link is not the zero hash
C6_Witness ==
  /\ bucket # <<>>
  /\ Len(bucket[1].messages) >= 2
  /\ bucket[1].messages[2].prevHash = bucket[1].messages[1].hash

\* C7: in the thread file an append wrote, every message sits at its index
C7_StoredIndexIsPosition ==
  bucket # <<>> =>
    \A i \in 1..Len(bucket[1].messages) : bucket[1].messages[i].index = i - 1

\* a stored log rewritten after a truncation, with its entries at 0 and 1
C7_Witness ==
  /\ bucket # <<>>
  /\ Len(bucket[1].messages) = 2
  /\ bucket[1].messages[2].index = 1
  /\ \E p \in Reqs : req[p].pc = "head" /\ req[p].storedLength = 2
                     /\ req[p].contractMessageCount = 1

\* a tracked write lost its index: the contract confirmed that index for
\* another content identifier
Loser(cid) ==
  /\ cid \in DOMAIN pending_uploads
  /\ pending_uploads[cid].message_index < Len(chain)
  /\ chain[pending_uploads[cid].message_index + 1].cid # cid

\* C8 (as claimed): the row of a losing write is never marked confirmed
C8_LoserNeverConfirmed ==
  \A cid \in DOMAIN pending_uploads :
    Loser(cid) => pending_uploads[cid].status # "confirmed"

\* C9 (as claimed): every entry the bucket holds below the confirmed count is
\* the entry whose commit the contract recorded for that position
C9_ConfirmedPositionsHoldConfirmedEntries ==
  \A i \in 1..Len(chain) :
    (bucket # <<>> /\ Len(bucket[1].messages) >= i) =>
       bucket[1].messages[i] = chain[i].message

\* the status changes the claim allows; one step of the cleanup job runs
\* markOrphaned and markUnpinned on the same row, which composes two of them
AllowedChange(old, new) ==
  \/ old = new
  \/ old = "pending" /\ new \in {"confirmed", "orphaned", "unpinned"}
  \/ old = "orphaned" /\ new = "unpinned"

\* C10 (as claimed): a row's status only ever moves pending -> confirmed,
\* pending -> orphaned, orphaned -> unpinned
C10_StatusMonotonic ==
  [][\A cid \in DOMAIN pending_uploads :
       /\ cid \in DOMAIN pending_uploads'
       /\ AllowedChange(pending_uploads[cid].status,
                        pending_uploads'[cid].status)]_vars


\* the rows in a terminal status
Terminal(t) == {c \in DOMAIN t : t[c].status \in {"confirmed", "unpinned"}}

\* C11: a markConfirmed or markOrphaned issued for a row that is already
\* confirmed or unpinned leaves the row as it was.  The cleanup job issues
\* them; it never touches a terminal row in any other way, so every step of
\* a runCleanup call keeps every terminal row.
C11_TerminalRowsUntouched ==
  [][sweep' # sweep =>
       \A cid \in Terminal(pending_uploads) :
          pending_uploads'[cid] = pending_uploads[cid]]_vars

\* the step in which call p tracks its upload
Tracks(p) == req[p].pc = "head" /\ req'[p].pc = "responded"

\* C12: trackUpload keeps one row per cid: tracking a cid adds its row when
\* there is none and replaces the row when there is one (status pending,
\* created now, confirmed_at NULL, the new message's index and sender); the
\* number of rows grows by one only for a cid not yet tracked, and no other
\* row changes.
C12_TrackOverwrites ==
  [][\A p \in Reqs :
       Tracks(p) =>
         LET cid == req'[p].cid
             m == req[p].signedMessage
         IN /\ DOMAIN pending_uploads' = DOMAIN pending_uploads \cup {cid}
            /\ Cardinality(DOMAIN pending_uploads') =
                 Cardinality(DOMAIN pending_uploads) +
                   (IF cid \in DOMAIN pending_uploads THEN 0 ELSE 1)
            /\ pending_uploads'[cid] =
                 [thread_id |-> threadId, message_index |-> m.index,
                  sender |-> m.sender, created_at |-> now,
                  confirmed_at |-> NULL, status |-> "pending"]
            /\ \A c \in DOMAIN pending_uploads \ {cid} :
                 pending_uploads'[c] = pending_uploads[c]]_vars

\* a call has tracked the cid an earlier, committed call had tracked, and
\* the row now carries the later call's index
C12_Witness ==
  \E p \in Reqs :
    /\ req[p].pc = "responded"
    /\ req[p].cid \in DOMAIN pending_uploads
    /\ pending_uploads[req[p].cid].message_index = req[p].signedMessage.index
    /\ \E i \in 1..Len(chain) :
         /\ chain[i].cid = req[p].cid
         /\ chain[i].message.index # req[p].signedMessage.index

\* row cid turns unpinned in this step
Unpinned(cid) ==
  /\ pending_uploads[cid].status # "unpinned"
  /\ pending_uploads'[cid].status = "unpinned"

\* C13 (as claimed): a runCleanup call moves a row to unpinned only if the
\* row was orphaned when that call began.
C13_UnpinnedWereOrphanedAtStart ==
  [][\A s \in Sweeps :
       sweep'[s] # sweep[s] =>
         \A cid \in DOMAIN pending_uploads :
            Unpinned(cid) =>
              cid \in (IF sweep[s].pc = "checking"
                         THEN sweep[s].orphanedAtStart
                         ELSE getOrphanedUploads(pending_uploads))]_vars

\* C13 (amended): a runCleanup call moves no row to unpinned before all its
\* checks are done (the step that unpins ends the call), and a row it moves
\* to unpinned is orphaned at that point: it was orphaned before the step,
\* or it is the entry of the call's batch whose check the step has made.
C13_UnpinAfterChecks ==
  [][\A cid \in DOMAIN pending_uploads :
       Unpinned(cid) =>
         /\ \A s \in Sweeps : sweep'[s] # sweep[s] => sweep'[s].pc # "checking"
         /\ \/ pending_uploads[cid].status = "orphaned"
            \/ \E s \in Sweeps :
                 /\ sweep[s].pc = "checking"
                 /\ sweep'[s].pc # "checking"
                 /\ \E u \in sweep[s].staleUploads : u.cid = cid]_vars

\* a call has returned after marking a row of its batch orphaned and
\* unpinning it
C13_Witness ==
  \E s \in Sweeps :
    /\ sweep[s].pc = "returned"
    /\ sweep[s].orphaned >= 1
    /\ sweep[s].unpinned >= 1

\* C14: in a runCleanup call every check of the batch is done before the
\* first row is unpinned, and a row marked confirmed is never marked
\* orphaned or unpinned afterwards, by that call or a later one.
C14_ConfirmedNeverUnpinned ==
  [][\A cid \in DOMAIN pending_uploads :
       /\ Unpinned(cid) =>
            \A s \in Sweeps : sweep'[s] # sweep[s] => sweep'[s].staleUploads = {}
       /\ pending_uploads[cid].status = "confirmed" =>
            pending_uploads'[cid].status \notin {"orphaned", "unpinned"}]_vars

\* the step in which call s checks the entry u of its batch
Checks(s, u) ==
  /\ sweep[s].pc = "checking"
  /\ u \in sweep[s].staleUploads
  /\ u \notin sweep'[s].staleUploads

\* C15: when getReadStatus answers with count c for a stale entry, the call
\* marks the entry confirmed (and counts it as confirmed) if
\* c > message_index, and marks it orphaned (and counts it as orphaned)
\* otherwise, c = message_index included; the orphaned row may be unpinned
\* by the same step when the check was the call's last.
C15_MarkedByConfirmedCount ==
  [][\A s \in Sweeps : \A u \in sweep[s].staleUploads :
       Checks(s, u) =>
         IF Len(chain) > u.message_index
           THEN /\ pending_uploads'[u.cid].status = "confirmed"
                /\ sweep'[s].confirmed = sweep[s].confirmed + 1
                /\ sweep'[s].orphaned = sweep[s].orphaned
           ELSE /\ pending_uploads'[u.cid].status =
                     IF sweep'[s].pc = "checking" THEN "orphaned" ELSE "unpinned"
                /\ sweep'[s].orphaned = sweep[s].orphaned + 1
                /\ sweep'[s].confirmed = sweep[s].confirmed]_vars

\* a call has returned after confirming one entry and orphaning another
\* whose index equals the confirmed count
C15_Witness ==
  \E s \in Sweeps :
    /\ sweep[s].pc = "returned"
    /\ sweep[s].confirmed >= 1
    /\ sweep[s].orphaned >= 1
    /\ \E cid \in DOMAIN pending_uploads :
         /\ pending_uploads[cid].status = "unpinned"
         /\ pending_uploads[cid].message_index = Len(chain)

\* row cid is marked orphaned in this step (and perhaps unpinned at once)
Orphaned(cid) ==
  /\ pending_uploads[cid].status # "orphaned"
  /\ pending_uploads'[cid].status # pending_uploads[cid].status
  /\ pending_uploads'[cid].status \in {"orphaned", "unpinned"}

\* C16: a row is marked orphaned only while it is pending and older than
\* the grace window, also when an append tracks its cid again while a
\* runCleanup call is waiting.
C16_OrphanedOnlyWhenStale ==
  [][\A cid \in DOMAIN pending_uploads :
       Orphaned(cid) =>
         /\ pending_uploads[cid].status = "pending"
         /\ now - pending_uploads[cid].created_at > maxAgeMinutes]_vars

\* the pending rows older than the grace window
StalePending ==
  {c \in DOMAIN pending_uploads :
     /\ pending_uploads[c].status = "pending"
     /\ now - pending_uploads[c].created_at > maxAgeMinutes}

C18_UnpinnedObjectIsGone ==
  [][\A cid \in DOMAIN pending_uploads :
       Unpinned(cid) => (bucket' = <<>> \/ HeadCid' # cid)]_vars

\* the step in which the runCleanup call of timer s ends
Finishes(s) ==
  /\ sweep'[s] # sweep[s]
  /\ sweep'[s].pc \in {"returned", "rejected"}

\* C19: a failure on one entry does not keep a runCleanup call from
\* processing the others: a call with checks left after a counted error
\* goes on checking, and when a call with dryRun off ends, every orphaned
\* row has been unpinned except the one whose unpin failed, if any.
C19_FailureIsolated ==
  [][\A s \in Sweeps :
       (Finishes(s) /\ ~sweep'[s].dryRun) =>
          Cardinality(getOrphanedUploads(pending_uploads')) <=
            (IF sweep'[s].pc = "rejected" THEN 1 ELSE 0)]_vars

\* C20: an entry whose ledger query (or update) fails keeps its status and
\* is counted as an error.  So the check of an entry whose index the
\* contract has confirmed either marks it confirmed or leaves its row as it
\* was and adds one to errors; it never marks it orphaned.
C20_FailedCheckKeepsStatus ==
  [][\A s \in Sweeps : \A u \in sweep[s].staleUploads :
       (Checks(s, u) /\ Len(chain) > u.message_index) =>
          \/ pending_uploads'[u.cid].status = "confirmed"
          \/ /\ pending_uploads'[u.cid] = pending_uploads[u.cid]
             /\ sweep'[s].errors = sweep[s].errors + 1]_vars

\* C21: at most one runCleanup call is in progress at any time.
C21_OneSweepAtATime ==
  Cardinality({s \in Sweeps : sweep[s].pc = "checking"}) <= 1

\* C22: a runCleanup call with dryRun on marks each stale entry it checks
\* confirmed or orphaned by the contract's count, changes no other row,
\* moves no row to unpinned, and ends (counting no unpin) with every row
\* that is orphaned after its checks still orphaned.
C22_DryRunUnpinsNothing ==
  [][\A s \in Sweeps :
       (sweep'[s] # sweep[s] /\ sweep'[s].dryRun) =>
          /\ \A cid \in DOMAIN pending_uploads : ~Unpinned(cid)
          /\ sweep'[s].unpinned = 0
          /\ \A u \in sweep[s].staleUploads :
               Checks(s, u) =>
                 /\ pending_uploads'[u.cid].status =
                      IF Len(chain) > u.message_index
                        THEN "confirmed" ELSE "orphaned"
                 /\ \A c \in DOMAIN pending_uploads \ {u.cid} :
                      pending_uploads'[c] = pending_uploads[c]
          /\ (\A u \in sweep[s].staleUploads : ~Checks(s, u)) =>
               pending_uploads' = pending_uploads]_vars

\* a dryRun call has returned after marking an entry orphaned, and the row
\* is orphaned still
C22_Witness ==
  \E s \in Sweeps :
    /\ sweep[s].pc = "returned"
    /\ sweep[s].dryRun
    /\ sweep[s].orphaned >= 1
    /\ getOrphanedUploads(pending_uploads) # {}

\* the step in which call p is answered 500 at its checks
Rejects(p) == req[p].pc = "queried" /\ req'[p].pc = "idle"

\* the message of call p has the index and the prevHash its count asks for
\* (threadFile holds the kept entries and then the message)
Valid(p) ==
  LET c == req[p].contractMessageCount
      m == req[p].signedMessage
  IN /\ m.index = c
     /\ Len(req[p].threadFile.messages) = c + 1
     /\ m.prevHash = IF c > 0 THEN req[p].threadFile.messages[c].hash
                              ELSE zeroHash

\* C23: an append rejected for its index or its prevHash writes nothing:
\* the step that rejects leaves the bucket and the table as they were, and
\* only a call whose message passed both tests writes the bucket or tracks.
C23_RejectedAppendWritesNothing ==
  [][\A p \in Reqs :
       /\ Rejects(p) => (bucket' = bucket /\ pending_uploads' = pending_uploads)
       /\ (req'[p] # req[p] /\ (bucket' # bucket \/ pending_uploads' # pending_uploads))
            => Valid(p)]_vars

\* calls have been made and all are over, none of them having tracked
\* anything: they were rejected, and the bucket is empty still
C23_Witness ==
  /\ nreq >= 2
  /\ \A p \in Reqs : req[p].pc = "idle"
  /\ pending_uploads = <<>>
  /\ bucket = <<>>

\* C24: an append whose ledger query or bucket call fails ends in an error
\* and has persisted nothing.  So a call goes past its ledger query only
\* with the count the contract holds, and a call that has written the
\* bucket is not answered with an error.
C24_FailedAppendPersistsNothing ==
  [][\A p \in Reqs :
       /\ (req[p].pc = "idle" /\ req'[p].pc = "queried") =>
            req'[p].contractMessageCount = Len(chain)
       /\ req[p].pc = "head" => req'[p].pc # "idle"]_vars

\* C25: no entry is in a stored thread file unless its signature verifies
\* against its sender (an append whose signature does not verify is
\* rejected and writes nothing).
C25_StoredEntriesVerified ==
  bucket # <<>> =>
    \A i \in 1..Len(bucket[1].messages) :
       bucket[1].messages[i].signer = bucket[1].messages[i].sender

\* C26: when an append is answered with success, the table holds the row
\* of the cid it returns: pending, confirmed_at NULL, with the append's
\* thread, index and sender.
C26_SuccessMeansTracked ==
  [][\A p \in Reqs :
       Tracks(p) =>
         /\ req'[p].cid \in DOMAIN pending_uploads'
         /\ LET row == pending_uploads'[req'[p].cid]
            IN /\ row.status = "pending"
               /\ row.confirmed_at = NULL
               /\ row.thread_id = threadId
               /\ row.message_index = req[p].signedMessage.index
               /\ row.sender = req[p].signedMessage.sender]_vars

\* the cids of the batch a runCleanup call has just read
Batch(s) == {u.cid : u \in sweep'[s].staleUploads}

\* C27: getStaleUploads returns exactly the rows that are pending and were
\* created before now - maxAge, each with its thread, index and sender: no
\* row of another status, no pending row created at now - maxAge or later,
\* and every pending row created before.
C27_StaleIsPendingAndOld ==
  [][\A s \in Sweeps :
       (sweep[s].pc # "checking" /\ sweep'[s] # sweep[s]) =>
          /\ Batch(s) =
               {c \in DOMAIN pending_uploads :
                  /\ pending_uploads[c].status = "pending"
                  /\ pending_uploads[c].created_at < now - maxAgeMinutes}
          /\ \A u \in sweep'[s].staleUploads :
               /\ u.thread_id = pending_uploads[u.cid].thread_id
               /\ u.message_index = pending_uploads[u.cid].message_index
               /\ u.sender = pending_uploads[u.cid].sender]_vars

\* a call is checking a batch that leaves out a pending row created
\* exactly maxAgeMinutes ago
C27_Witness ==
  \E s \in Sweeps :
    /\ sweep[s].pc = "checking"
    /\ \E c \in DOMAIN pending_uploads :
         /\ pending_uploads[c].status = "pending"
         /\ pending_uploads[c].created_at = now - maxAgeMinutes
         /\ \A u \in sweep[s].staleUploads : u.cid # c

\* the step in which the upload of call p lands in the bucket
Uploads(p) == req[p].pc = "uploading" /\ req'[p].pc = "head"

\* C28 (as claimed): every append that is persisted stores a version
\* greater than the version stored before it.
C28_VersionIncreases ==
  [][\A p \in Reqs :
       (Uploads(p) /\ bucket # <<>>) =>
          bucket'[1].version > bucket[1].version]_vars

\* C28 (amended): every append stores the version of the log it started
\* from plus one: the stored file's version when its count is above 0,
\* and 1 when its count is 0 (a new file of version 0).
C28_VersionIsStartPlusOne ==
  [][\A p \in Reqs :
       /\ Accepts(p) =>
            req'[p].threadFile.version =
              (IF req[p].contractMessageCount > 0 THEN bucket[1].version ELSE 0) + 1
       /\ Uploads(p) => bucket'[1].version = req[p].threadFile.version]_vars

\* the stored file has gone through a truncation: its version is above
\* its number of entries
C28_Witness ==
  /\ bucket # <<>>
  /\ bucket[1].version > Len(bucket[1].messages)

\* C29: a row, once there, stays: no step removes a row, and the steps of
\* the cleanup job leave thread_id, message_index, sender and created_at
\* of every row as they were and change confirmed_at only of a row they
\* mark confirmed.
C29_RowsOnlyChangeStatus ==
  [][/\ DOMAIN pending_uploads \subseteq DOMAIN pending_uploads'
     /\ (\A p \in Reqs : ~Tracks(p)) =>
          \A cid \in DOMAIN pending_uploads :
             /\ pending_uploads'[cid].thread_id = pending_uploads[cid].thread_id
             /\ pending_uploads'[cid].message_index = pending_uploads[cid].message_index
             /\ pending_uploads'[cid].sender = pending_uploads[cid].sender
             /\ pending_uploads'[cid].created_at = pending_uploads[cid].created_at
             /\ pending_uploads'[cid].confirmed_at # pending_uploads[cid].confirmed_at
                  => pending_uploads'[cid].status = "confirmed"]_vars

\* the cleanup job has confirmed one row and unpinned another
C29_Witness ==
  \E c, d \in DOMAIN pending_uploads :
    /\ pending_uploads[c].status = "confirmed"
    /\ pending_uploads[c].confirmed_at > pending_uploads[c].created_at
    /\ pending_uploads[d].status = "unpinned"

\* C30: an append made with count 0 stores a file with one entry, its own
\* message at index 0, whatever the bucket held.
C30_FreshThreadHoldsOneEntry ==
  [][\A p \in Reqs :
       (Uploads(p) /\ req[p].contractMessageCount = 0) =>
          /\ bucket'[1].messages = <<req[p].signedMessage>>
          /\ bucket'[1].messages[1].index = 0]_vars

\* a call with count 0 has replaced the file another sender's call stored
C30_Witness ==
  \E p \in Reqs :
    /\ req[p].pc \in {"head", "responded"}
    /\ req[p].contractMessageCount = 0
    /\ bucket[1].messages = <<req[p].signedMessage>>
    /\ \E c \in DOMAIN pending_uploads :
         pending_uploads[c].sender # req[p].signedMessage.sender

\* C34: in the result of runCleanup, confirmed + orphaned + errors equals
\* the number of stale entries the call fetched when it began; while the
\* call is still checking, the three counts and the entries not yet checked
\* add up to that number
C34_EveryStaleEntryCounted ==
  \A s \in Sweeps :
    /\ sweep[s].pc = "returned" =>
         sweep[s].confirmed + sweep[s].orphaned + sweep[s].errors
           = sweep[s].fetched
    /\ sweep[s].pc = "checking" =>
         sweep[s].confirmed + sweep[s].orphaned + sweep[s].errors
           + Cardinality(sweep[s].staleUploads) = sweep[s].fetched

\* a call has returned after fetching two stale entries, one of which it
\* counted as an error
C34_Witness ==
  \E s \in Sweeps :
    /\ sweep[s].pc = "returned"
    /\ sweep[s].fetched = 2
    /\ sweep[s].errors = 1

C36_NoOrphanLeftAfterSweep ==
  [][\A s \in Sweeps :
       (Finishes(s) /\ sweep'[s].pc = "returned" /\ ~sweep'[s].dryRun)
         => \A c \in DOMAIN pending_uploads' :
              pending_uploads'[c].status # "orphaned"]_vars

\* a call without dryRun has returned having unpinned more rows than it
\* marked orphaned itself: rows an earlier dry run had left orphaned
C36_Witness ==
  \E s \in Sweeps :
    /\ sweep[s].pc = "returned"
    /\ ~sweep[s].dryRun
    /\ sweep[s].unpinned > sweep[s].orphaned
    /\ \E c \in DOMAIN pending_uploads : pending_uploads[c].status = "unpinned"

\* the requests checkRateLimit allowed for account a in the hour ending at t
PassedInHour(a, t) ==
  {j \in 1..Len(passed[a]) : passed[a][j] > t - oneHour /\ passed[a][j] <= t}

\* a step in which POST /api/upload takes a new request
Receives == upload.pc # "authorizing" /\ upload' # upload

\* C31: for each address (lower-cased), no hour holds more than maxUploads
\* requests that passed the rate-limit check; a request arriving when
\* maxUploads allowed requests lie within the past hour is answered 429,
\* and a request answered 429 is recorded nowhere
C31_RateLimited ==
  /\ [](\A a \in Accounts : \A i \in 1..Len(passed[a]) :
          Cardinality(PassedInHour(a, passed[a][i])) <= maxUploads)
  /\ [][/\ ((/\ Receives
              /\ Cardinality(PassedInHour(toLowerCase(upload'.userAddress),
                                           dateNow)) >= maxUploads)
               => upload'.status = 429)
         /\ (upload'.status = 429
               => (rateLimitStore' = rateLimitStore /\ passed' = passed))]_vars

\* an address was allowed a request, then two more after the first one was
\* an hour old, and its next request has been answered 429
C31_Witness ==
  \E a \in Accounts :
    /\ Len(passed[a]) = maxUploads + 1
    /\ Len(rateLimitStore[a]) = maxUploads
    /\ upload.status = 429
    /\ toLowerCase(upload.userAddress) = a

\* C32: POST /api/upload writes an object only for a request whose
\* signature was made by the key of the claimed userAddress over the
\* request's text, whose file hashes to contentHash, whose timestamp is
\* within five minutes of now, and whose sender is the group's owner (folder
\* under tokens/) or a member (any other folder)
C32_WritesOnlyAfterAllChecks ==
  [][filebase' # filebase =>
       /\ upload'.signedHash = upload'.contentHash
       /\ toLowerCase(upload'.signer) = toLowerCase(upload'.userAddress)
       /\ keccak256(upload'.file) = upload'.contentHash
       /\ Abs(dateNow' - upload'.timestamp) <= fiveMinutes
       /\ IF upload'.folder = "tokens/1"
            THEN toLowerCase(upload'.userAddress) = toLowerCase(GroupOwner)
            ELSE toLowerCase(upload'.userAddress) \in Members]_vars

\* the store holds an object written for the owner under tokens/ and one
\* written for a member under posts
C32_Witness ==
  /\ \E o \in filebase : o.key[1] = "tokens/1"
  /\ \E o \in filebase : o.key[1] = "posts"
  /\ upload.status = 200

\* C39: a request answered with an invalid signature, a content-hash
\* mismatch or an expired timestamp leaves the rate limiter's record of
\* every address as it was
C39_RejectedUsesNoQuota ==
  [][upload'.error \in {"Invalid signature", "Content hash mismatch",
                         "Timestamp expired"}
       => rateLimitStore' = rateLimitStore]_vars

\* the lower-cased addresses an array names
NamedSet(ps) == {toLowerCase(ps[i]) : i \in DOMAIN ps}

\* C33: the participants a new thread file persists are lower-cased and
\* sorted, so two requests naming the same set of participants, in any
\* order and letter case, persist the same participants value
C33_ParticipantsCanonical ==
  /\ \A p \in Reqs :
       newThread[p].started =>
         LET ps == newThread[p].participants
         IN /\ \A i \in DOMAIN ps : ps[i] = toLowerCase(ps[i])
            /\ \A i, j \in DOMAIN ps : i < j => ~LowerBefore(ps[j], ps[i])
  /\ \A p, q \in Reqs :
       (/\ newThread[p].started
        /\ newThread[q].started
        /\ NamedSet(newThread[p].given) = NamedSet(newThread[q].given))
         => newThread[p].participants = newThread[q].participants

\* the messages of the stored file that carry a call's messageId and sender
Holds(c) ==
  {loc \in {<<t, i>> : t \in 1..Len(userFile[1].threads), i \in 1..MaxMessages} :
     /\ loc[2] <= Len(userFile[1].threads[loc[1]].messages)
     /\ userFile[1].threads[loc[1]].messages[loc[2]].messageId = call[c].messageId
     /\ userFile[1].threads[loc[1]].messages[loc[2]].sender = call[c].sender}

\* C37: once two addMessageToThread calls for the same user have both
\* returned, the stored file holds both messages and its version is 2 more
\* than before them
C37_NoLostUpdate ==
  (\A c \in Calls : call[c].pc = "done")
    => /\ \A c \in Calls : Holds(c) # {}
       /\ MessageCount(userFile[1].threads) = 2
       /\ userFile[1].version = initialFile.version + 2

\* the positions of a thread's messages with isRead = false
Unread(thread) == {i \in DOMAIN thread.messages : ~thread.messages[i].isRead}

\* a step in which a markAsRead call for a message the stored file has as
\* read writes its copy
RewritesRead(c) ==
  /\ call[c].op = "mark"
  /\ call[c].pc \in {"changed", "added"}
  /\ call'[c].pc \in {"added", "done"}
  /\ LET threadIdx == userFile[1].messageIndex[call[c].messageId][1]
         messageIdx == userFile[1].messageIndex[call[c].messageId][2]
     IN userFile[1].threads[threadIdx + 1].messages[messageIdx + 1].isRead

\* C38: in every file written by calls made one after another, each
\* thread's unreadCount is the number of its messages with isRead = false,
\* and markAsRead on a message already read changes neither an unreadCount
\* nor the version
C38_UnreadCountIsUnreadMessages ==
  /\ [](userFile # <<>> =>
          \A t \in DOMAIN userFile[1].threads :
            userFile[1].threads[t].unreadCount
              = Cardinality(Unread(userFile[1].threads[t])))
  /\ [][\A c \in Calls :
          RewritesRead(c) =>
            /\ userFile'[1].version = userFile[1].version
            /\ \A t \in DOMAIN userFile[1].threads :
                 userFile'[1].threads[t].unreadCount
                   = userFile[1].threads[t].unreadCount]_vars

\* markAsRead has returned for a message that was read already, in a file
\* that holds a message marked read before and one still unread
C38_Witness ==
  /\ userFile # <<>>
  /\ call["c1"].pc = "done"
  /\ call["c1"].op = "mark"
  /\ call["c1"].version = userFile[1].version
  /\ \E t \in DOMAIN userFile[1].threads :
       \E i \in DOMAIN userFile[1].threads[t].messages :
         /\ userFile[1].threads[t].messages[i].isRead
         /\ userFile[1].threads[t].messages[i].sender # owner
  /\ \E t \in DOMAIN userFile[1].threads :
       userFile[1].threads[t].unreadCount > 0

=============================================================================
